---- MODULE Spec2Model ----
(***************************************************************************)
(* The link-graph script of the site (assets/graph-script.js): index       *)
(* loader, edge builder, mini and full graph views, keyboard traversal,    *)
(* recent-pages log and backlink injection, as a state machine.            *)
(*                                                                         *)
(* A JavaScript string is a sequence of one-character strings, so that     *)
(* split, replace, startsWith, includes and toLowerCase are computed and   *)
(* not assumed.                                                            *)
(***************************************************************************)
EXTENDS Integers, Sequences, FiniteSets, TLC

VARIABLES
  searchData,             \* the content served as /search.json: items {href, title}
  pathname,               \* window.location.pathname of the loaded page
  contentArea,            \* whether the page has '#quarto-document-content, .content, main'
  recentStore,            \* localStorage['graph-recent-pages'], decoded; NoItem when absent
  clock,                  \* Date.now(), counted in page loads
  loadState,              \* where the fetch('/search.json') promise chain stands
  nodes,                  \* graphData.nodes
  links,                  \* graphData.links
  miniView,               \* what renderMiniGraph last drew
  aug,                    \* what injectBacklinksAndRelated last injected
  modalActive,            \* graphModal has class 'active'
  activeCategories,       \* the Set of active filter categories
  searchValue,            \* the text in the search box (its value)
  searchQuery,
  focusMode,
  focusedNodeIndex,
  keyboardFocusableNodes,
  fullView,               \* what initGraph last drew
  miniClient,             \* clientWidth and clientHeight of the mini container
  fullClient,             \* clientWidth and clientHeight of the modal's container
  tick,                   \* the point at which D3's ticks leave a node
  fetched,                \* the URLs handed to fetch(), in order
  err,                    \* what the .catch handler was called with, "none" before
  widget,                 \* where the .sidebar-graph element is, "none" when absent
  graphs,                 \* how many .sidebar-graph elements the document holds
  sections,               \* the sections and the footer among the content area's children
  trail,                  \* the nav.reading-trail element of the content area
  event,                  \* the event or callback the last step dispatched
  sidebar,                \* an element matches one of the sidebar selectors
  mainContent,            \* an element matches the main content selector
  d3Loaded,               \* d3.forceSimulation is defined
  domLoaded,              \* DOMContentLoaded has fired
  listening,              \* initGraphScript has registered its DOMContentLoaded listener
  timers,                 \* delays of the timeouts of the handler that are still pending
  interval                \* the checkMainContent interval is active

vars == <<searchData, pathname, contentArea, recentStore, clock, loadState, nodes, links,
          miniView, aug, modalActive, activeCategories, searchValue, searchQuery, focusMode,
          focusedNodeIndex, keyboardFocusableNodes, fullView, miniClient, fullClient, tick,
          fetched, err, widget, graphs, sections, trail, event, sidebar, mainContent, d3Loaded,
          domLoaded, listening, timers, interval>>

(***************************************************************************)
(* Bounds of the model                                                     *)
(***************************************************************************)
\* at most this many items of IndexPool are served in one search index
MaxIndexItems == 3
\* at most this many page loads in the recent-pages runs
MaxLoads == 12

(***************************************************************************)
(* String built-ins                                                        *)
(***************************************************************************)
Digits == {"0","1","2","3","4","5","6","7","8","9"}

Upper == <<"A","B","C","D","E","F","G","H","I","J","K","L","M",
           "N","O","P","Q","R","S","T","U","V","W","X","Y","Z">>

Lower == <<"a","b","c","d","e","f","g","h","i","j","k","l","m",
           "n","o","p","q","r","s","t","u","v","w","x","y","z">>

LowerChar(c) ==
  IF \E i \in 1..26 : Upper[i] = c
    THEN Lower[CHOOSE i \in 1..26 : Upper[i] = c]
    ELSE c

toLowerCase(s) == [i \in 1..Len(s) |-> LowerChar(s[i])]

startsWith(s, p) == Len(p) <= Len(s) /\ SubSeq(s, 1, Len(p)) = p

endsWith(s, p) == Len(p) <= Len(s) /\ SubSeq(s, Len(s) - Len(p) + 1, Len(s)) = p

includes(s, p) == \E i \in 1..(Len(s) - Len(p) + 1) : SubSeq(s, i, i + Len(p) - 1) = p

\* the positions of character c in s
Positions(s, c) == {i \in 1..Len(s) : s[i] = c}

Min(S) == CHOOSE x \in S : \A y \in S : x <= y

Max(S) == CHOOSE x \in S : \A y \in S : y <= x

\* s.split('#')[0]
BeforeHash(s) ==
  IF Positions(s, "#") = {} THEN s ELSE SubSeq(s, 1, Min(Positions(s, "#")) - 1)

\* s.split('/').pop()
LastSegment(s) ==
  IF Positions(s, "/") = {} THEN s ELSE SubSeq(s, Max(Positions(s, "/")) + 1, Len(s))

\* s.split('/').slice(0, -1).join('/')
DirName(s) ==
  IF Positions(s, "/") = {} THEN <<>> ELSE SubSeq(s, 1, Max(Positions(s, "/")) - 1)

\* s.trim(), for the space character
RECURSIVE trim(_)
trim(s) ==
  IF s = <<>> THEN s
  ELSE IF Head(s) = " " THEN trim(Tail(s))
  ELSE IF s[Len(s)] = " " THEN trim(SubSeq(s, 1, Len(s) - 1))
  ELSE s

(***************************************************************************)
(* Node ids: path.replace(/[\/\.]/g, '-').replace(/^-|-$/g, '')            *)
(*               .replace(/html$/g, '')                                    *)
(***************************************************************************)
ReplaceSlashDot(s) == [i \in 1..Len(s) |-> IF s[i] \in {"/", "."} THEN "-" ELSE s[i]]

StripEdgeDashes(s) ==
  LET t == IF s # <<>> /\ Head(s) = "-" THEN Tail(s) ELSE s
  IN  IF t # <<>> /\ t[Len(t)] = "-" THEN SubSeq(t, 1, Len(t) - 1) ELSE t

StripHtmlEnd(s) ==
  IF endsWith(s, <<"h","t","m","l">>) THEN SubSeq(s, 1, Len(s) - 4) ELSE s

MakeId(path) == StripHtmlEnd(StripEdgeDashes(ReplaceSlashDot(path)))

CategoryOf(path) ==
  IF startsWith(path, <<"/","n","o","t","e","s","/">>) THEN "notes"
  ELSE IF startsWith(path, <<"/","w","o","r","k","/">>) THEN "work"
  ELSE IF startsWith(path, <<"/","r","e","a","d","i","n","g","/">>) THEN "reading"
  ELSE "nav"

(***************************************************************************)
(* Series base name: path.replace(/-\d+$/, '').replace(/part-\d+/i, '')    *)
(*                       .replace(/series-\d+/i, '')                       *)
(***************************************************************************)
\* the end of the run of digits that starts at position i (i - 1 when there is none)
RECURSIVE DigitsEnd(_, _)
DigitsEnd(s, i) ==
  IF i <= Len(s) /\ s[i] \in Digits THEN DigitsEnd(s, i + 1) ELSE i - 1

\* s.replace(/-\d+$/, '')
StripNumberEnd(s) ==
  LET at == {i \in Positions(s, "-") : i < Len(s) /\ DigitsEnd(s, i + 1) = Len(s)}
  IN  IF at = {} THEN s ELSE SubSeq(s, 1, Min(at) - 1)

\* s.replace(/<word>\d+/i, ''), word given in lower case with its dash
StripWordNumber(s, word) ==
  LET n  == Len(word)
      at == {i \in 1..(Len(s) - n) :
               /\ toLowerCase(SubSeq(s, i, i + n - 1)) = word
               /\ s[i + n] \in Digits}
  IN  IF at = {} THEN s
      ELSE LET i == Min(at)
           IN  SubSeq(s, 1, i - 1) \o SubSeq(s, DigitsEnd(s, i + n) + 1, Len(s))

SeriesName(path) ==
  StripWordNumber(StripWordNumber(StripNumberEnd(path), <<"p","a","r","t","-">>), <<"s","e","r","i","e","s","-">>)

(***************************************************************************)
(* Index loader                                                            *)
(***************************************************************************)
Node(id, label, path, cat) == [id |-> id, label |-> label, path |-> path, cat |-> cat]

coreNodes ==
  << Node(<<"h","o","m","e">>, <<"H","o","m","e">>, <<"/">>, "nav"),
     Node(<<"a","b","o","u","t">>, <<"A","b","o","u","t">>, <<"/","a","b","o","u","t",".","h","t","m","l">>, "nav"),
     Node(<<"n","o","t","e","s">>, <<"N","o","t","e","s">>, <<"/","n","o","t","e","s","/">>, "nav"),
     Node(<<"w","o","r","k">>, <<"W","o","r","k">>, <<"/","w","o","r","k","/">>, "nav"),
     Node(<<"r","e","a","d","i","n","g">>, <<"R","e","a","d","i","n","g">>, <<"/","r","e","a","d","i","n","g","/">>, "nav"),
     Node(<<"c","o","n","t","a","c","t">>, <<"C","o","n","t","a","c","t">>, <<"/","c","o","n","t","a","c","t","_","c","v",".","h","t","m","l">>, "nav") >>

HasPath(map, path) == \E i \in 1..Len(map) : map[i].path = path

\* one step of searchData.forEach: the Map keeps insertion order
AddItem(map, item) ==
  LET path == <<"/">> \o BeforeHash(item.href)
  IN  IF ~HasPath(map, path) /\ ~includes(path, <<"i","n","d","e","x",".","h","t","m","l">>)
        THEN Append(map, Node(MakeId(path),
                              IF item.title # <<>> THEN item.title ELSE LastSegment(path),
                              path,
                              CategoryOf(path)))
        ELSE map

RECURSIVE AddItems(_, _)
AddItems(map, items) ==
  IF items = <<>> THEN map ELSE AddItems(AddItem(map, Head(items)), Tail(items))

BuildNodes(items) == AddItems(coreNodes, items)

(***************************************************************************)
(* Edge builder                                                            *)
(***************************************************************************)
Link(s, t) == [source |-> s, target |-> t]

manualLinks ==
  << Link(<<"h","o","m","e">>, <<"n","o","t","e","s">>),
     Link(<<"h","o","m","e">>, <<"w","o","r","k">>),
     Link(<<"h","o","m","e">>, <<"r","e","a","d","i","n","g">>),
     Link(<<"h","o","m","e">>, <<"a","b","o","u","t">>),
     Link(<<"n","o","t","e","s">>, <<"h","e","l","l","o">>),
     Link(<<"n","o","t","e","s">>, <<"m","o","n","t","e","-","c","a","r","l","o">>),
     Link(<<"n","o","t","e","s">>, <<"s","a","l">>),
     Link(<<"n","o","t","e","s">>, <<"r","i","s","k","-","1">>),
     Link(<<"r","i","s","k","-","1">>, <<"m","o","n","t","e","-","c","a","r","l","o">>),
     Link(<<"r","i","s","k","-","1">>, <<"r","i","s","k","-","2">>),
     Link(<<"r","i","s","k","-","2">>, <<"r","i","s","k","-","1">>),
     Link(<<"r","i","s","k","-","2">>, <<"r","i","s","k","-","3">>),
     Link(<<"r","i","s","k","-","2">>, <<"s","a","l">>),
     Link(<<"r","i","s","k","-","2">>, <<"h","e","a","t","w","a","v","e">>),
     Link(<<"r","i","s","k","-","3">>, <<"r","i","s","k","-","1">>),
     Link(<<"r","i","s","k","-","3">>, <<"r","i","s","k","-","2">>),
     Link(<<"r","i","s","k","-","3">>, <<"m","o","n","t","e","-","c","a","r","l","o">>),
     Link(<<"r","i","s","k","-","3">>, <<"s","a","l">>),
     Link(<<"w","o","r","k">>, <<"h","e","a","t","w","a","v","e">>),
     Link(<<"h","e","a","t","w","a","v","e">>, <<"s","a","l">>),
     Link(<<"h","e","a","t","w","a","v","e">>, <<"r","i","s","k","-","2">>),
     Link(<<"s","a","l">>, <<"h","e","a","t","w","a","v","e">>),
     Link(<<"m","o","n","t","e","-","c","a","r","l","o">>, <<"r","i","s","k","-","3">>) >>

HasLink(ls, s, t) == \E i \in 1..Len(ls) : ls[i].source = s /\ ls[i].target = t

IsNode(ns, id) == \E i \in 1..Len(ns) : ns[i].id = id

\* rules 1 and 4: every node of the category to the category's index node
RECURSIVE ToIndexLoop(_, _, _)
ToIndexLoop(acc, members, indexId) ==
  IF members = <<>> THEN acc
  ELSE ToIndexLoop(IF Head(members).id # indexId
                     THEN Append(acc, Link(Head(members).id, indexId))
                     ELSE acc,
                   Tail(members), indexId)

ToIndexLinks(acc, ns, cat, indexPath) ==
  LET members == SelectSeq(ns, LAMBDA n : n.cat = cat)
      IsIndex(n) == n.path = indexPath \/ n.path = indexPath \o <<"i","n","d","e","x",".","h","t","m","l">>
  IN  IF \E i \in 1..Len(ns) : IsIndex(ns[i])
        THEN ToIndexLoop(acc, members, ns[Min({i \in 1..Len(ns) : IsIndex(ns[i])})].id)
        ELSE acc

\* rule 2: the test on a pair of notes
SameSubdirectory(note1, note2) ==
  LET note1Dir == DirName(note1.path)
      note2Dir == DirName(note2.path)
  IN  note1Dir = note2Dir /\ note1Dir # <<"/","n","o","t","e","s">> /\ Len(note1Dir) > 6

\* rule 3: the test on a pair of notes
SameSeries(note1, note2) ==
  LET name1 == SeriesName(note1.path)
      name2 == SeriesName(note2.path)
  IN  name1 = name2 /\ Len(name1) > 10

PairTest(rule, note1, note2) ==
  IF rule = "subdirectory" THEN SameSubdirectory(note1, note2) ELSE SameSeries(note1, note2)

\* notesNodes.forEach(note1 => notesNodes.forEach(note2 => ...)), pair k of n * n
RECURSIVE PairLoop(_, _, _, _)
PairLoop(acc, notes, k, rule) ==
  LET n     == Len(notes)
      note1 == notes[((k - 1) \div n) + 1]
      note2 == notes[((k - 1) % n) + 1]
  IN  IF k > n * n THEN acc
      ELSE PairLoop(IF /\ note1.id # note2.id
                       /\ PairTest(rule, note1, note2)
                       /\ ~HasLink(acc, note1.id, note2.id)
                      THEN Append(acc, Link(note1.id, note2.id))
                      ELSE acc,
                    notes, k + 1, rule)

AutoLinks(ns) ==
  LET notesNodes == SelectSeq(ns, LAMBDA n : n.cat = "notes")
      rule1 == ToIndexLinks(<<>>, ns, "notes", <<"/","n","o","t","e","s","/">>)
      rule2 == PairLoop(rule1, notesNodes, 1, "subdirectory")
      rule3 == PairLoop(rule2, notesNodes, 1, "series")
  IN  ToIndexLinks(rule3, ns, "work", <<"/","w","o","r","k","/">>)

RECURSIVE MergeLoop(_, _)
MergeLoop(mergedLinks, autoLinks) ==
  IF autoLinks = <<>> THEN mergedLinks
  ELSE MergeLoop(IF ~HasLink(mergedLinks, Head(autoLinks).source, Head(autoLinks).target)
                   THEN Append(mergedLinks, Head(autoLinks))
                   ELSE mergedLinks,
                 Tail(autoLinks))

\* faulty variant: the merged list starts empty instead of as a copy of the manual links
MergeLinks_FromEmpty(manual, autoLinks) == MergeLoop(<<>>, autoLinks)

\* faulty variant: every inferred link is pushed, without the test for an identical pair
MergeLinks_NoTest(manual, autoLinks) == manual \o autoLinks

MergeLinks(manual, autoLinks) == MergeLoop(manual, autoLinks)

\* the inference-and-merge step of the success handler
BuildLinks(ns, ls) == MergeLinks(ls, AutoLinks(ns))

(***************************************************************************)
(* Current page                                                            *)
(***************************************************************************)
\* the value of getCurrentPageId when no node matches: no id is this sequence
Null == <<"null">>

\* JavaScript truthiness of an id: null and '' are falsy
Truthy(id) == id # Null /\ id # <<>>

ExactMatch(n, path) == path = n.path \/ path = n.path \o <<"i","n","d","e","x",".","h","t","m","l">>

LooseMatch(n, path) ==
  \/ endsWith(path, <<"/">>) /\ n.path = path
  \/ endsWith(n.path, <<"/">>) /\ startsWith(path, n.path)
  \/ endsWith(path, n.path)
  \/ endsWith(n.path, path)

IsRootPath(path) == path = <<"/">> \/ path = <<"/","i","n","d","e","x",".","h","t","m","l">> \/ endsWith(path, <<"/","i","n","d","e","x",".","h","t","m","l">>)

HomeMatch(n) == n.path = <<"/">> \/ n.id = <<"h","o","m","e">>

\* the index in ns of the node getCurrentPageId finds, 0 when it finds none
CurrentPageIndex(ns, path) ==
  LET exact == {i \in 1..Len(ns) : ExactMatch(ns[i], path)}
      loose == {i \in 1..Len(ns) : LooseMatch(ns[i], path)}
      home  == {i \in 1..Len(ns) : HomeMatch(ns[i])}
  IN  IF exact # {} THEN Min(exact)
      ELSE IF loose # {} THEN Min(loose)
      ELSE IF IsRootPath(path) /\ home # {} THEN Min(home)
      ELSE 0

getCurrentPageId(ns, path) ==
  LET found == CurrentPageIndex(ns, path)
  IN  IF found = 0 THEN Null ELSE ns[found].id

(***************************************************************************)
(* Layout, shared by the two views.  The force simulation is D3's and is   *)
(* deterministic: the point at which its ticks leave the nodes is a        *)
(* parameter of the run, drawn from SimPoints: a point left of and below    *)
(* every viewport, so that both ends of the clamp are met.  Viewport sizes *)
(* are drawn even, so that width / 2 is an integer.                        *)
(***************************************************************************)
SimPoints == {<<-40, 700>>}

MiniClientSizes == {<<0, 0>>, <<240, 160>>}

FullClientSizes == {<<800, 600>>}

\* faulty variant: the render works on the object of graphData.nodes itself
SpreadCopy_Alias(d, owner, i, degree) ==
  [id |-> d.id, label |-> d.label, path |-> d.path, cat |-> d.cat, degree |-> degree,
   obj |-> <<"graphData", i>>]

\* ({...d}) of the i-th object of graphData.nodes: a new object owned by the render;
\* obj tells objects apart
SpreadCopy(d, owner, i, degree) ==
  [id |-> d.id, label |-> d.label, path |-> d.path, cat |-> d.cat, degree |-> degree,
   obj |-> <<owner, i>>]

\* graphData.links.map(d => ({source: d.source, target: d.target}))
CopyLinks(ls, owner) ==
  [i \in 1..Len(ls) |-> [source |-> ls[i].source, target |-> ls[i].target, obj |-> <<owner, i>>]]

\* graphData.nodes after a simulation has run on the placed objects: the simulation
\* writes the coordinates into the objects it is given
Simulated(canon, placed) ==
  [i \in 1..Len(canon) |->
     LET on == {k \in 1..Len(placed) : placed[k].obj = <<"graphData", i>>}
     IN  IF on = {} THEN canon[i]
         ELSE [id |-> canon[i].id, label |-> canon[i].label, path |-> canon[i].path,
               cat |-> canon[i].cat, x |-> placed[Min(on)].x, y |-> placed[Min(on)].y]]

\* graphData.links after forceLink has been given the rendered links: it numbers the
\* link objects it is given and replaces their ends by node objects, which index marks
Linked(canon, rendered) ==
  [i \in 1..Len(canon) |->
     LET on == {k \in 1..Len(rendered) : rendered[k].obj = <<"graphData", i>>}
     IN  IF on = {} THEN canon[i]
         ELSE [source |-> canon[i].source, target |-> canon[i].target, index |-> Min(on) - 1]]

Placed(n, x, y, pinned) ==
  [id |-> n.id, label |-> n.label, path |-> n.path, cat |-> n.cat, degree |-> n.degree,
   obj |-> n.obj, x |-> x, y |-> y, pinned |-> pinned]

Clamp(lo, hi, v) == IF (IF hi < v THEN hi ELSE v) < lo THEN lo ELSE (IF hi < v THEN hi ELSE v)

\* pin the current node, run the ticks, pin it again, clamp the others
Layout(ns, currentId, width, height, margin, at) ==
  LET found == {i \in 1..Len(ns) : ns[i].id = currentId}
      currentNode == IF found = {} THEN 0 ELSE Min(found)
      centerX == width \div 2
      centerY == height \div 2
  IN  [i \in 1..Len(ns) |->
         IF i = currentNode THEN Placed(ns[i], centerX, centerY, TRUE)
         ELSE IF ns[i].id # currentId
           THEN Placed(ns[i], Clamp(margin, width - margin, at[1]),
                              Clamp(margin, height - margin, at[2]), FALSE)
         ELSE Placed(ns[i], at[1], at[2], FALSE)]

\* faulty variant: only the source of a link is looked up
FilterLinks_SourceOnly(ls, ns) == SelectSeq(ls, LAMBDA l : IsNode(ns, l.source))

\* links.filter(l => nodes.find(n => n.id === l.source) && nodes.find(n => n.id === l.target))
FilterLinks(ls, ns) == SelectSeq(ls, LAMBDA l : IsNode(ns, l.source) /\ IsNode(ns, l.target))

Degree(ls, id) ==
  Cardinality({i \in 1..Len(ls) : ls[i].source = id})
    + Cardinality({i \in 1..Len(ls) : ls[i].target = id})

WithDegree(ns, ls) ==
  [i \in 1..Len(ns) |-> SpreadCopy(ns[i], "full", i, Degree(ls, ns[i].id))]

NotDrawn == [drawn |-> FALSE, width |-> 0, height |-> 0, currentId |-> Null,
             nodes |-> <<>>, links |-> <<>>]

\* the drawing renderMiniGraph leaves in the container
MiniGraph(ns, ls, path, client, at) ==
  IF ns = <<>> THEN NotDrawn
  ELSE LET width  == IF client[1] # 0 THEN client[1] ELSE 180
           height == IF client[2] # 0 THEN client[2] ELSE 150
           currentId == getCurrentPageId(ns, path)
           copies == [i \in 1..Len(ns) |-> SpreadCopy(ns[i], "mini", i, 0)]
       IN  [drawn |-> TRUE, width |-> width, height |-> height, currentId |-> currentId,
            nodes |-> Layout(copies, currentId, width, height, 15, at),
            links |-> FilterLinks(CopyLinks(ls, "mini"), copies)]

(***************************************************************************)
(* Zoom: transforms are kept exact, as fractions in lowest terms           *)
(***************************************************************************)
Abs(v) == IF v < 0 THEN -v ELSE v

RECURSIVE Gcd(_, _)
Gcd(a, b) == IF b = 0 THEN a ELSE Gcd(b, a % b)

\* n/d in lowest terms, d > 0
Frac(n, d) ==
  LET g == Gcd(Abs(n), d)
  IN  <<n \div g, d \div g>>

\* d3.zoomIdentity: scale 1, no translation
zoomIdentity == [k |-> <<1, 1>>, x |-> <<0, 1>>, y |-> <<0, 1>>]

\* radius of a node's circle; the quotient is rounded down
getRadius(d, currentId, maxDegree) ==
  IF d.id = currentId THEN 18
  ELSE Clamp(6, 16, 6 + (d.degree * (16 - 6)) \div maxDegree)

\* g.node().getBBox() taken over the circles of the placed nodes (labels left out)
Bounds(ns, currentId) ==
  IF ns = <<>> THEN [x |-> 0, y |-> 0, width |-> 0, height |-> 0]
  ELSE LET maxDegree == Max({ns[i].degree : i \in 1..Len(ns)} \cup {1})
           r(i) == getRadius(ns[i], currentId, maxDegree)
           left == Min({ns[i].x - r(i) : i \in 1..Len(ns)})
           right == Max({ns[i].x + r(i) : i \in 1..Len(ns)})
           top == Min({ns[i].y - r(i) : i \in 1..Len(ns)})
           bottom == Max({ns[i].y + r(i) : i \in 1..Len(ns)})
       IN  [x |-> left, y |-> top, width |-> right - left, height |-> bottom - top]

\* the transform initGraph applies at the end of a render: the drawing scaled to
\* nine tenths of the viewport and centred; left at the identity of the new svg
\* when the box is empty
FitTransform(ns, currentId, width, height) ==
  LET bounds == Bounds(ns, currentId)
      fullWidth == bounds.width
      fullHeight == bounds.height
      twiceMidX == 2 * bounds.x + fullWidth
      twiceMidY == 2 * bounds.y + fullHeight
      byWidth == width * fullHeight <= height * fullWidth
      sn == 9 * (IF byWidth THEN width ELSE height)
      sd == 10 * (IF byWidth THEN fullWidth ELSE fullHeight)
  IN  IF fullWidth = 0 \/ fullHeight = 0 THEN zoomIdentity
      ELSE [k |-> Frac(sn, sd),
            x |-> Frac(width * sd - sn * twiceMidX, 2 * sd),
            y |-> Frac(height * sd - sn * twiceMidY, 2 * sd)]

\* the tooltip a render appends to the container: empty and transparent, no
\* preview fetch of this render in flight, the pointer over none of its nodes
\* (nodes are named by their position in the rendered list)
NoPreview ==
  [html |-> [node |-> 0, title |-> "", label |-> <<>>, path |-> <<>>],
   opacity |-> 0, pending |-> {}, over |-> 0]

(***************************************************************************)
(* Full view: the filters of initGraph                                     *)
(***************************************************************************)
\* ids of the links that touch the current page, empty when currentId is falsy
\* faulty variant: only the source of a link that touches the current page is kept
ConnectedNodes_SourcesOnly(ls, currentId) ==
  IF Truthy(currentId)
    THEN {ls[i].source : i \in {j \in 1..Len(ls) : ls[j].source = currentId \/ ls[j].target = currentId}}
    ELSE {}

ConnectedNodes(ls, currentId) ==
  IF Truthy(currentId)
    THEN {ls[i].source : i \in {j \in 1..Len(ls) : ls[j].source = currentId \/ ls[j].target = currentId}}
         \cup {ls[i].target : i \in {j \in 1..Len(ls) : ls[j].source = currentId \/ ls[j].target = currentId}}
    ELSE {}

CategoryFilter(ns, active) ==
  IF "all" \notin active THEN SelectSeq(ns, LAMBDA n : n.cat \in active) ELSE ns

SearchMatch(n, query) ==
  \/ includes(toLowerCase(n.label), query)
  \/ includes(toLowerCase(n.path), query)
  \/ includes(toLowerCase(n.id), query)

SearchFilter(ns, q) ==
  LET query == toLowerCase(q)
  IN  IF q # <<>> THEN SelectSeq(ns, LAMBDA n : SearchMatch(n, query)) ELSE ns

FocusFilter(ns, ls, focus, currentId) ==
  LET connectedNodes == ConnectedNodes(ls, currentId)
  IN  IF focus /\ Truthy(currentId)
        THEN SelectSeq(ns, LAMBDA n : n.id \in connectedNodes)
        ELSE ns

VisibleNodes(ns, ls, currentId, active, q, focus) ==
  FocusFilter(SearchFilter(CategoryFilter(WithDegree(ns, ls), active), q),
              ls, focus, currentId)

\* the drawing initGraph leaves in the container
FullGraph(ns, ls, path, active, q, focus, client, at) ==
  LET currentId == getCurrentPageId(ns, path)
      shown == VisibleNodes(ns, ls, currentId, active, q, focus)
      placed == Layout(shown, currentId, client[1], client[2], 50, at)
  IN  [drawn |-> TRUE, width |-> client[1], height |-> client[2], currentId |-> currentId,
       nodes |-> placed,
       links |-> FilterLinks(CopyLinks(ls, "full"), shown),
       transform |-> FitTransform(placed, currentId, client[1], client[2]),
       preview |-> NoPreview]

(***************************************************************************)
(* Backlinks and related content                                           *)
(***************************************************************************)
NodeById(ns, id) == ns[Min({i \in 1..Len(ns) : ns[i].id = id})]

\* Array.from(new Map(list.map(b => [b.path, b])).values())
RECURSIVE UniqueByPath(_, _)
UniqueByPath(acc, list) ==
  IF list = <<>> THEN acc
  ELSE LET b == Head(list)
       IN  UniqueByPath(IF HasPath(acc, b.path)
                          THEN [i \in 1..Len(acc) |-> IF acc[i].path = b.path THEN b ELSE acc[i]]
                          ELSE Append(acc, b),
                        Tail(list))

\* the source nodes of the links into currentId
RECURSIVE Backlinks(_, _, _, _)
Backlinks(ns, ls, currentId, currentPath) ==
  IF ls = <<>> THEN <<>>
  ELSE (IF /\ Head(ls).target = currentId
           /\ IsNode(ns, Head(ls).source)
           /\ NodeById(ns, Head(ls).source).path # currentPath
          THEN <<NodeById(ns, Head(ls).source)>>
          ELSE <<>>) \o Backlinks(ns, Tail(ls), currentId, currentPath)

\* the target nodes of the links out of currentId
RECURSIVE Related(_, _, _, _)
Related(ns, ls, currentId, currentPath) ==
  IF ls = <<>> THEN <<>>
  ELSE (IF /\ Head(ls).source = currentId
           /\ IsNode(ns, Head(ls).target)
           /\ NodeById(ns, Head(ls).target).path # currentPath
          THEN <<NodeById(ns, Head(ls).target)>>
          ELSE <<>>) \o Related(ns, Tail(ls), currentId, currentPath)

NoSections == [done |-> FALSE, backlinks |-> <<>>, related |-> <<>>]

\* the sections injectBacklinksAndRelated leaves in the content area, given those there
Inject(old, ns, ls, currentPath, hasContent) ==
  LET currentId == getCurrentPageId(ns, currentPath)
  IN  IF currentPath = <<>> \/ currentPath = <<"/">> \/ currentPath = <<"/","i","n","d","e","x",".","h","t","m","l">> THEN old
      ELSE IF ~Truthy(currentId) THEN old
      ELSE IF ~hasContent THEN old
      ELSE [done |-> TRUE,
            backlinks |-> UniqueByPath(<<>>, Backlinks(ns, ls, currentId, currentPath)),
            related |-> UniqueByPath(<<>>, Related(ns, ls, currentId, currentPath))]

\* a child of the content area: a backlinks or related-content section, or the footer
Section(kind, auto, entries) == [kind |-> kind, auto |-> auto, entries |-> entries]

Footer == Section("footer", FALSE, <<>>)

\* faulty variant: the sections found in the content area are left in place
RemoveExisting_None(old) == old

\* existingBacklinks.forEach(el => el.remove()); existingRelated.forEach(el => el.remove())
RemoveExisting(old) == SelectSeq(old, LAMBDA el : el.kind \notin {"backlinks", "related"})

\* contentArea.querySelector: the position of the first child of the kind (with the
\* auto class when autoOnly), 0 when there is none
querySelector(children, kind, autoOnly) ==
  LET found == {i \in 1..Len(children) :
                  children[i].kind = kind /\ (autoOnly => children[i].auto)}
  IN  IF found # {} THEN Min(found) ELSE 0

\* children with el put in after the child at position i (0: in front)
InsertAfter(children, i, el) ==
  SubSeq(children, 1, i) \o <<el>> \o SubSeq(children, i + 1, Len(children))

\* contentArea.insertBefore(el, footer) when there is a footer, else appendChild(el)
BeforeFooterOrAtEnd(children, el) ==
  IF querySelector(children, "footer", FALSE) # 0
    THEN InsertAfter(children, querySelector(children, "footer", FALSE) - 1, el)
    ELSE Append(children, el)

\* the children of the content area after injectBacklinksAndRelated, given those before
InjectSections(old, ns, ls, currentPath, hasContent) ==
  LET currentId == getCurrentPageId(ns, currentPath)
      uniqueBacklinks == UniqueByPath(<<>>, Backlinks(ns, ls, currentId, currentPath))
      uniqueRelated == UniqueByPath(<<>>, Related(ns, ls, currentId, currentPath))
      removed == RemoveExisting(old)
      withBacklinks ==
        IF uniqueBacklinks # <<>>
          THEN BeforeFooterOrAtEnd(removed, Section("backlinks", TRUE, uniqueBacklinks))
          ELSE removed
      relatedDiv == Section("related", TRUE, uniqueRelated)
  IN  IF currentPath = <<>> \/ currentPath = <<"/">> \/ currentPath = <<"/","i","n","d","e","x",".","h","t","m","l">> THEN old
      ELSE IF ~Truthy(currentId) THEN old
      ELSE IF ~hasContent THEN old
      ELSE IF uniqueRelated = <<>> THEN withBacklinks
      ELSE IF querySelector(withBacklinks, "backlinks", TRUE) # 0
        THEN InsertAfter(withBacklinks, querySelector(withBacklinks, "backlinks", TRUE), relatedDiv)
      ELSE BeforeFooterOrAtEnd(withBacklinks, relatedDiv)

\* path.split('/'), with cur the part being read
RECURSIVE split(_, _)
split(s, cur) ==
  IF s = <<>> THEN <<cur>>
  ELSE IF Head(s) = "/" THEN <<cur>> \o split(Tail(s), <<>>)
  ELSE split(Tail(s), Append(cur, Head(s)))

\* currentPath after the first k parts
RECURSIVE CrumbPath(_, _)
CrumbPath(pathParts, k) ==
  IF k = 0 THEN <<>> ELSE CrumbPath(pathParts, k - 1) \o <<"/">> \o pathParts[k]

\* the breadcrumbs of the nav.reading-trail that injectReadingTrail() leaves in the
\* content area, given those before (titles are left out)
injectReadingTrail(old, path, hasContent) ==
  LET pathParts == SelectSeq(split(path, <<>>), LAMBDA p : p # <<>> /\ p # <<"i","n","d","e","x",".","h","t","m","l">>)
      crumb(k) == [path |-> CrumbPath(pathParts, k) \o (IF k = Len(pathParts) THEN <<>> ELSE <<"/">>),
                   isLast |-> k = Len(pathParts)]
  IN  IF path = <<"/">> \/ path = <<"/","i","n","d","e","x",".","h","t","m","l">> THEN old
      ELSE IF ~hasContent THEN old
      ELSE <<[path |-> <<"/">>, isLast |-> FALSE]>> \o [k \in 1..Len(pathParts) |-> crumb(k)]

(***************************************************************************)
(* Recent pages                                                            *)
(***************************************************************************)
\* faulty variant: the entry is pushed to the front without filtering out the same path
addRecentPage_NoFilter(recent, path, now) ==
  LET all == <<[path |-> path, timestamp |-> now]>> \o recent
  IN  SubSeq(all, 1, IF Len(all) < 10 THEN Len(all) ELSE 10)

\* recent.filter(p => p.path !== path); recent.unshift(...); recent.slice(0, 10)
addRecentPage(recent, path, now) ==
  LET kept == SelectSeq(recent, LAMBDA p : p.path # path)
      all  == <<[path |-> path, timestamp |-> now]>> \o kept
  IN  SubSeq(all, 1, IF Len(all) < 10 THEN Len(all) ELSE 10)

(***************************************************************************)
(* The mini widget.  sidebar stands for a match of one of the sidebar      *)
(* selectors, mainContent for a match of the main content selector.        *)
(***************************************************************************)
\* faulty variant: a widget is created on every call
Created_Always(w) == 1

\* how many .sidebar-graph elements createSidebarGraph creates when the element that
\* holds #mini-graph-container is at w: one when there is none, else it returns early
Created(w) == IF w = "none" THEN 1 ELSE 0

\* where createSidebarGraph leaves the .sidebar-graph element that is at w
createSidebarGraph(w, side, main) ==
  IF w # "none"
    THEN (IF side /\ w # "sidebar" THEN "sidebar" ELSE w)
    ELSE IF side THEN "sidebar"
    ELSE IF main THEN "main"
    ELSE "fixed"

\* setTimeout(createSidebarGraph, delay)
RetryDelays == {50, 100, 250, 500, 1000, 2000, 3000, 5000}

\* setTimeout(function() { clearInterval(checkMainContent); }, 10000)
StopDelay == 10000

\* an event or a callback, with what the handlers read of it
Event(type, target, key, modifier, tagName) ==
  [type |-> type, target |-> target, key |-> key, modifier |-> modifier, tagName |-> tagName]

DOMContentLoaded == Event("DOMContentLoaded", "document", "", FALSE, "")

\* the content area has no nav.reading-trail
NoTrail == <<>>

(***************************************************************************)
(* Inputs: the search index served, the page loaded, the text typed        *)
(***************************************************************************)
Item(href, title) == [href |-> href, title |-> title]

IndexPool ==
  << Item(<<"n","o","t","e","s","/","a","-","b",".","h","t","m","l">>, <<"A","B">>),
     Item(<<"n","o","t","e","s","/","a","/","b",".","h","t","m","l">>, <<"B">>),
     Item(<<"n","o","t","e","s","/","a","/","c",".","h","t","m","l">>, <<>>),
     Item(<<"w","o","r","k","/","w",".","h","t","m","l">>, <<"W">>),
     Item(<<"n","o","t","e","s","/","i","n","d","e","x",".","h","t","m","l">>, <<"N","o","t","e","s">>),
     Item(<<"a","b","o","u","t",".","h","t","m","l","#","m","e">>, <<"M","e">>),
     Item(<<"n","o","t","e","s","/","p","-","p","a","r","t","-","1",".","h","t","m","l">>, <<"P","1">>),
     Item(<<"n","o","t","e","s","/","p","-","p","a","r","t","-","2",".","h","t","m","l">>, <<"P","2">>),
     Item(<<"r","e","a","d","i","n","g","/","r",".","h","t","m","l">>, <<"R">>) >>

\* the items of IndexPool at the positions in S, in the pool's order
RECURSIVE PoolItems(_, _)
PoolItems(S, i) ==
  IF i > Len(IndexPool) THEN <<>>
  ELSE (IF i \in S THEN <<IndexPool[i]>> ELSE <<>>) \o PoolItems(S, i + 1)

Indexes ==
  {PoolItems(S, 1) : S \in {T \in SUBSET (1..Len(IndexPool)) : Cardinality(T) <= MaxIndexItems}}

Pages == {<<"/">>, <<"/","n","o","t","e","s","/">>, <<"/","n","o","t","e","s","/","i","n","d","e","x",".","h","t","m","l">>, <<"/","n","o","t","e","s","/","a","/","b",".","h","t","m","l">>, <<"/","w","o","r","k","/","w",".","h","t","m","l">>}

ViewIndexes == {PoolItems({1, 2, 4}, 1)}

ViewPages == {<<"/","n","o","t","e","s","/","a","/","b",".","h","t","m","l">>, <<"/","w","o","r","k","/","w",".","h","t","m","l">>}

SearchInputs == {<<>>, <<" ">>, <<"N","o","T","e">>, <<"z","z">>}

FilterButtons == {"all", "notes", "work", "reading", "nav"}

ArrowKeys == {"ArrowDown", "ArrowUp", "ArrowLeft", "ArrowRight"}

(***************************************************************************)
(* The page after the DOMContentLoaded handler has run                     *)
(***************************************************************************)
Constructed(items, page, content, stored, now, mini, full, at, side) ==
  /\ searchData = items
  /\ pathname = page
  /\ contentArea = content
  /\ clock = now
  /\ recentStore = addRecentPage(stored, page, now)
  /\ loadState = "primary"
  /\ nodes = <<>>
  /\ links = manualLinks
  /\ miniView = NotDrawn
  /\ aug = NoSections
  /\ modalActive = FALSE
  /\ activeCategories = {"all", "notes", "work", "reading", "nav"}
  /\ searchValue = <<>>
  /\ searchQuery = <<>>
  /\ focusMode = FALSE
  /\ focusedNodeIndex = -1
  /\ keyboardFocusableNodes = <<>>
  /\ fullView = NotDrawn
  /\ miniClient = mini
  /\ fullClient = full
  /\ tick = at
  /\ fetched = <<<<"/","s","e","a","r","c","h",".","j","s","o","n">>>>
  /\ err = "none"
  /\ sidebar = side
  /\ mainContent = content
  /\ widget = createSidebarGraph("none", side, content)
  /\ graphs = Created("none")
  /\ sections = <<>>
  /\ trail = NoTrail
  /\ event = DOMContentLoaded
  /\ d3Loaded = TRUE
  /\ domLoaded = TRUE
  /\ listening = TRUE
  /\ timers = RetryDelays \cup {StopDelay}
  /\ interval = TRUE

InitLoad ==
  \E items \in Indexes, page \in Pages, content \in BOOLEAN,
     mini \in MiniClientSizes, at \in SimPoints :
    Constructed(items, page, content, <<>>, 1, mini, <<800, 600>>, at, FALSE)

InitView ==
  \E items \in ViewIndexes, page \in ViewPages, full \in FullClientSizes, at \in SimPoints :
    Constructed(items, page, TRUE, <<>>, 1, <<0, 0>>, full, at, TRUE)

viewVars == <<modalActive, activeCategories, searchValue, searchQuery, focusMode,
              focusedNodeIndex, keyboardFocusableNodes, fullView>>

inputVars == <<searchData, pathname, contentArea, recentStore, clock,
               miniClient, fullClient, tick>>

\* the host page and the start of the script
hostVars == <<sidebar, mainContent, d3Loaded, domLoaded, listening, timers, interval>>

(***************************************************************************)
(* The fetch('/search.json') promise chain                                 *)
(***************************************************************************)
\* .then(searchData => ...): nodes, links, mini view, backlinks
SuccessHandler ==
  LET ns == BuildNodes(searchData)
      ls == BuildLinks(ns, links)
  IN  /\ miniView' = MiniGraph(ns, ls, pathname, miniClient, tick)
      /\ nodes' = Simulated(ns, miniView'.nodes)
      /\ links' = Linked(ls, miniView'.links)
      /\ widget' = createSidebarGraph(widget, sidebar, mainContent)
      /\ graphs' = graphs + Created(widget)
      /\ aug' = Inject(aug, ns, ls, pathname, contentArea)
      /\ sections' = InjectSections(sections, ns, ls, pathname, contentArea)
      /\ loadState' = "loaded"
      /\ UNCHANGED <<inputVars, hostVars, viewVars, fetched, err, trail, event>>

\* faulty variant: the catch handler leaves the node list empty
fallbackNodes_None == <<>>

\* the node list of the catch handler
fallbackNodes ==
  << Node(<<"h","o","m","e">>, <<"H","o","m","e">>, <<"/">>, "nav"),
     Node(<<"a","b","o","u","t">>, <<"A","b","o","u","t">>, <<"/","a","b","o","u","t",".","h","t","m","l">>, "nav"),
     Node(<<"n","o","t","e","s">>, <<"N","o","t","e","s">>, <<"/","n","o","t","e","s","/">>, "nav"),
     Node(<<"w","o","r","k">>, <<"W","o","r","k">>, <<"/","w","o","r","k","/">>, "nav"),
     Node(<<"r","e","a","d","i","n","g">>, <<"R","e","a","d","i","n","g">>, <<"/","r","e","a","d","i","n","g","/">>, "nav"),
     Node(<<"c","o","n","t","a","c","t">>, <<"C","o","n","t","a","c","t">>, <<"/","c","o","n","t","a","c","t","_","c","v",".","h","t","m","l">>, "nav") >>

\* .catch(err => ...): the minimal core nodes
CatchHandler(reason) ==
  /\ err' = reason
  /\ miniView' = MiniGraph(fallbackNodes, links, pathname, miniClient, tick)
  /\ nodes' = Simulated(fallbackNodes, miniView'.nodes)
  /\ links' = Linked(links, miniView'.links)
  /\ widget' = createSidebarGraph(widget, sidebar, mainContent)
  /\ graphs' = graphs + Created(widget)
  /\ loadState' = "failed"
  /\ UNCHANGED <<inputVars, hostVars, viewVars, aug, fetched, sections, trail, event>>

\* the relative path tried after a response that is not ok
FallbackPath(path) ==
  IF includes(path, <<"/","w","o","r","k","/">>) \/ includes(path, <<"/","n","o","t","e","s","/">>)
    THEN <<".",".","/","s","e","a","r","c","h",".","j","s","o","n">>
    ELSE <<".","/","s","e","a","r","c","h",".","j","s","o","n">>

\* what the load steps that only pass a response on leave alone
passedOn == <<inputVars, hostVars, viewVars, nodes, links, miniView, aug, err, widget, graphs,
              sections, trail, event>>

PrimaryOk ==
  /\ loadState = "primary"
  /\ loadState' = "json"
  /\ UNCHANGED <<passedOn, fetched>>

PrimaryNotOk ==
  /\ loadState = "primary"
  /\ fetched' = Append(fetched, FallbackPath(pathname))
  /\ loadState' = "fallback"
  /\ UNCHANGED passedOn

PrimaryRejected ==
  /\ loadState = "primary"
  /\ CatchHandler("rejected")

FallbackOk ==
  /\ loadState = "fallback"
  /\ loadState' = "json"
  /\ UNCHANGED <<passedOn, fetched>>

FallbackNotOk ==
  /\ loadState = "fallback"
  /\ CatchHandler("status")

FallbackRejected ==
  /\ loadState = "fallback"
  /\ CatchHandler("rejected")

JsonParsed ==
  /\ loadState = "json"
  /\ SuccessHandler

JsonRejected ==
  /\ loadState = "json"
  /\ CatchHandler("parse")

NextLoad ==
  \/ PrimaryOk
  \/ PrimaryNotOk
  \/ PrimaryRejected
  \/ FallbackOk
  \/ FallbackNotOk
  \/ FallbackRejected
  \/ JsonParsed
  \/ JsonRejected

SpecLoad == InitLoad /\ [][NextLoad]_vars

(***************************************************************************)
(* The modal and its controls                                              *)
(***************************************************************************)
\* what the success and catch handlers write besides the graph
loadVars == <<fetched, err, widget, graphs, sections, trail, event>>

\* initGraph() under the given filter state
initGraph(active, q, focus) ==
  IF nodes = <<>>
    THEN UNCHANGED <<keyboardFocusableNodes, fullView, nodes, links>>
    ELSE /\ fullView' = FullGraph(nodes, links, pathname, active, q, focus, fullClient, tick)
         /\ keyboardFocusableNodes' = fullView'.nodes
         /\ nodes' = Simulated(nodes, fullView'.nodes)
         /\ links' = Linked(links, fullView'.links)

openGraph ==
  /\ modalActive' = TRUE
  /\ initGraph(activeCategories, searchQuery, focusMode)
  /\ UNCHANGED <<inputVars, hostVars, loadVars, loadState, miniView, aug,
                 activeCategories, searchValue, searchQuery, focusMode, focusedNodeIndex>>

closeGraph ==
  /\ modalActive
  /\ modalActive' = FALSE
  /\ UNCHANGED <<inputVars, hostVars, loadVars, loadState, nodes, links, miniView, aug, activeCategories,
                 searchValue, searchQuery, focusMode, focusedNodeIndex,
                 keyboardFocusableNodes, fullView>>

\* faulty variant: the typed text is taken without trim()
QueryOf_Untrimmed(value) == value

\* searchQuery = e.target.value.trim()
QueryOf(value) == trim(value)

SearchInput(value) ==
  /\ modalActive
  /\ searchValue' = value
  /\ searchQuery' = QueryOf(value)
  /\ focusedNodeIndex' = -1
  /\ initGraph(activeCategories, QueryOf(value), focusMode)
  /\ UNCHANGED <<inputVars, hostVars, loadVars, loadState, miniView, aug,
                 modalActive, activeCategories, focusMode>>

\* Escape in the search box: the input's handler, then the document's (closeGraph)
SearchEscape ==
  /\ modalActive
  /\ searchValue' = <<>>
  /\ searchQuery' = <<>>
  /\ focusedNodeIndex' = -1
  /\ initGraph(activeCategories, <<>>, focusMode)
  /\ modalActive' = FALSE
  /\ UNCHANGED <<inputVars, hostVars, loadVars, loadState, miniView, aug,
                 activeCategories, focusMode>>

\* Set.prototype.add(value): arguments after the first are ignored
SetAdd(set, args) == set \cup {args[1]}

ToggleAll(active) ==
  IF "all" \in active
    THEN SetAdd({}, <<"all">>)
    ELSE SetAdd({}, <<"all", "notes", "models", "projects", "nav">>)

\* faulty variant: a category is switched off and 'all' stays in the set
ToggleCategory_KeepsAll(active, cat) ==
  IF cat \in active
    THEN active \ {cat}
    ELSE IF {"notes", "work", "reading", "nav"} \subseteq (active \cup {cat})
           THEN active \cup {cat, "all"}
           ELSE active \cup {cat}

ToggleCategory(active, cat) ==
  IF cat \in active
    THEN (active \ {cat}) \ {"all"}
    ELSE IF {"notes", "work", "reading", "nav"} \subseteq (active \cup {cat})
           THEN active \cup {cat, "all"}
           ELSE active \cup {cat}

FilterClick(cat) ==
  LET active == IF cat = "all" THEN ToggleAll(activeCategories)
                ELSE ToggleCategory(activeCategories, cat)
  IN  /\ modalActive
      /\ activeCategories' = active
      /\ initGraph(active, searchQuery, focusMode)
      /\ UNCHANGED <<inputVars, hostVars, loadVars, loadState, miniView, aug,
                     modalActive, searchValue, searchQuery, focusMode, focusedNodeIndex>>

FocusModeClick ==
  /\ modalActive
  /\ focusMode' = ~focusMode
  /\ initGraph(activeCategories, searchQuery, ~focusMode)
  /\ UNCHANGED <<inputVars, hostVars, loadVars, loadState, miniView, aug,
                 modalActive, activeCategories, searchValue, searchQuery, focusedNodeIndex>>

\* Math.min(focusedNodeIndex + 1, length - 1) and Math.max(focusedNodeIndex - 1, 0),
\* on the 0-based index
MoveFocus(index, key, length) ==
  IF key \in {"ArrowDown", "ArrowRight"}
    THEN (IF index + 1 < length - 1 THEN index + 1 ELSE length - 1)
    ELSE (IF index - 1 > 0 THEN index - 1 ELSE 0)

\* the modal's keydown handler on an arrow key that passes its guards (those on the
\* target return without a change)
ArrowKey(key) ==
  /\ modalActive
  /\ IF keyboardFocusableNodes = <<>>
       THEN UNCHANGED <<focusedNodeIndex, keyboardFocusableNodes, fullView, nodes, links>>
       ELSE LET index == MoveFocus(focusedNodeIndex, key, Len(keyboardFocusableNodes))
            IN  /\ focusedNodeIndex' = index
                /\ IF index + 1 \in DOMAIN keyboardFocusableNodes
                     THEN initGraph(activeCategories, searchQuery, focusMode)
                     ELSE UNCHANGED <<keyboardFocusableNodes, fullView, nodes, links>>
  /\ UNCHANGED <<inputVars, hostVars, loadVars, loadState, miniView, aug,
                 modalActive, activeCategories, searchValue, searchQuery, focusMode>>

NextView ==
  \/ NextLoad
  \/ openGraph
  \/ closeGraph
  \/ \E value \in SearchInputs : SearchInput(value)
  \/ SearchEscape
  \/ \E cat \in FilterButtons : FilterClick(cat)
  \/ FocusModeClick
  \/ \E key \in ArrowKeys : ArrowKey(key)

SpecView == InitView /\ [][NextView]_vars

(***************************************************************************)
(* Zooming the full graph and the reset control                            *)
(***************************************************************************)
\* transforms a wheel or drag gesture can leave, within scaleExtent [0.3, 3]
UserTransforms ==
  {[k |-> <<1, 2>>, x |-> <<120, 1>>, y |-> <<-45, 1>>],
   [k |-> <<3, 1>>, x |-> <<-800, 1>>, y |-> <<-600, 1>>]}

\* the zoom behaviour's 'zoom' event after a wheel or drag gesture on the svg
Zoom(t) ==
  /\ modalActive
  /\ fullView.drawn
  /\ fullView' = [fullView EXCEPT !.transform = t]
  /\ UNCHANGED <<inputVars, hostVars, loadVars, loadState, nodes, links, miniView, aug,
                 modalActive, activeCategories, searchValue, searchQuery, focusMode,
                 focusedNodeIndex, keyboardFocusableNodes>>

\* click on #reset-zoom-btn
ResetZoomClick ==
  /\ modalActive
  /\ IF fullView.drawn
       THEN fullView' = [fullView EXCEPT !.transform = zoomIdentity]
       ELSE UNCHANGED fullView
  /\ UNCHANGED <<inputVars, hostVars, loadVars, loadState, nodes, links, miniView, aug,
                 modalActive, activeCategories, searchValue, searchQuery, focusMode,
                 focusedNodeIndex, keyboardFocusableNodes>>

NextZoom ==
  \/ NextLoad
  \/ openGraph
  \/ closeGraph
  \/ \E cat \in FilterButtons : FilterClick(cat)
  \/ \E t \in UserTransforms : Zoom(t)
  \/ ResetZoomClick

SpecZoom == InitView /\ [][NextZoom]_vars

(***************************************************************************)
(* The hover preview of a render                                           *)
(***************************************************************************)
\* preview fetches of one render that may be in flight together
MaxPending == 2

\* what a settled preview fetch writes into the tooltip: title and description
\* taken from the fetched page, or the node's label when the fetch failed
PreviewHtml(i, d, ok) ==
  [node |-> i, title |-> IF ok THEN "page" ELSE "label", label |-> d.label, path |-> d.path]

\* the pointer enters the i-th rendered node: fetch(d.path) is started
MouseEnter(i) ==
  /\ modalActive
  /\ fullView.drawn
  /\ i \in DOMAIN fullView.nodes
  /\ fullView.preview.over = 0
  /\ Cardinality(fullView.preview.pending) < MaxPending
  /\ fullView' = [fullView EXCEPT !.preview.over = i,
                                  !.preview.pending = @ \cup {i}]
  /\ event' = Event("mouseenter", i, "", FALSE, "g")
  /\ UNCHANGED <<inputVars, hostVars, loadState, nodes, links, miniView, aug, fetched, err,
                 widget, graphs, sections, trail, modalActive, activeCategories, searchValue,
                 searchQuery, focusMode, focusedNodeIndex, keyboardFocusableNodes>>

\* the pointer leaves the node it is over: the tooltip is made transparent
MouseLeave ==
  /\ modalActive
  /\ fullView.drawn
  /\ fullView.preview.over # 0
  /\ fullView' = [fullView EXCEPT !.preview.over = 0, !.preview.opacity = 0]
  /\ event' = Event("mouseleave", fullView.preview.over, "", FALSE, "g")
  /\ UNCHANGED <<inputVars, hostVars, loadState, nodes, links, miniView, aug, fetched, err,
                 widget, graphs, sections, trail, modalActive, activeCategories, searchValue,
                 searchQuery, focusMode, focusedNodeIndex, keyboardFocusableNodes>>

\* the preview fetch started for the i-th node settles: the then handler (ok) or
\* the catch handler writes the tooltip and shows it
PreviewSettles(i, ok) ==
  /\ fullView.drawn
  /\ i \in fullView.preview.pending
  /\ fullView' = [fullView EXCEPT !.preview.html = PreviewHtml(i, fullView.nodes[i], ok),
                                  !.preview.opacity = 1,
                                  !.preview.pending = @ \ {i}]
  /\ UNCHANGED <<inputVars, hostVars, loadVars, loadState, nodes, links, miniView, aug,
                 modalActive, activeCategories, searchValue, searchQuery, focusMode,
                 focusedNodeIndex, keyboardFocusableNodes>>

NextPreview ==
  \/ NextLoad
  \/ openGraph
  \/ \E i \in 1..Len(fullView.nodes) : MouseEnter(i)
  \/ MouseLeave
  \/ \E i \in 1..Len(fullView.nodes), ok \in BOOLEAN : PreviewSettles(i, ok)

SpecPreview == InitView /\ [][NextPreview]_vars

(***************************************************************************)
(* Page loads: following a link loads the script anew on the next page;    *)
(* only localStorage survives                                              *)
(***************************************************************************)
RecentPool ==
  << <<"/">>, <<"/","a","b","o","u","t",".","h","t","m","l">>, <<"/","n","o","t","e","s","/">>, <<"/","w","o","r","k","/">>, <<"/","r","e","a","d","i","n","g","/">>, <<"/","c","o","n","t","a","c","t","_","c","v",".","h","t","m","l">>,
     <<"/","n","o","t","e","s","/","a","-","b",".","h","t","m","l">>, <<"/","n","o","t","e","s","/","a","/","b",".","h","t","m","l">>, <<"/","n","o","t","e","s","/","a","/","c",".","h","t","m","l">>, <<"/","w","o","r","k","/","w",".","h","t","m","l">>,
     <<"/","r","e","a","d","i","n","g","/","r",".","h","t","m","l">>, <<"/","n","o","t","e","s","/","p","-","p","a","r","t","-","1",".","h","t","m","l">> >>

Logged(recent, path) == \E i \in 1..Len(recent) : recent[i].path = path

\* the pages a load may go to: the same page, the oldest logged page, the next new page
NextPages ==
  {pathname, recentStore[Len(recentStore)].path}
    \cup {RecentPool[i] : i \in {j \in 1..Len(RecentPool) :
                                   /\ ~Logged(recentStore, RecentPool[j])
                                   /\ \A k \in 1..(j - 1) : Logged(recentStore, RecentPool[k])}}

LoadPage(page) ==
  /\ clock < MaxLoads
  /\ pathname' = page
  /\ clock' = clock + 1
  /\ recentStore' = addRecentPage(recentStore, page, clock + 1)
  /\ loadState' = "primary"
  /\ nodes' = <<>>
  /\ links' = manualLinks
  /\ miniView' = NotDrawn
  /\ aug' = NoSections
  /\ modalActive' = FALSE
  /\ activeCategories' = {"all", "notes", "work", "reading", "nav"}
  /\ searchValue' = <<>>
  /\ searchQuery' = <<>>
  /\ focusMode' = FALSE
  /\ focusedNodeIndex' = -1
  /\ keyboardFocusableNodes' = <<>>
  /\ fullView' = NotDrawn
  /\ fetched' = <<<<"/","s","e","a","r","c","h",".","j","s","o","n">>>>
  /\ err' = "none"
  /\ widget' = createSidebarGraph("none", sidebar, mainContent)
  /\ graphs' = Created("none")
  /\ sections' = <<>>
  /\ trail' = NoTrail
  /\ UNCHANGED <<searchData, contentArea, miniClient, fullClient, tick, hostVars, event>>

InitRecent ==
  \E page \in {RecentPool[1], RecentPool[2]} :
    Constructed(<<>>, page, TRUE, <<>>, 1, <<0, 0>>, <<800, 600>>, <<900, 70>>, TRUE)

NextRecent == \E page \in NextPages : LoadPage(page)

SpecRecent == InitRecent /\ [][NextRecent]_vars

(***************************************************************************)
(* Start of the script and mounting of the mini widget: waitForD3, the     *)
(* DOMContentLoaded listener, the createSidebarGraph retries, the          *)
(* checkMainContent interval and the MutationObserver.  The fetch stays    *)
(* pending in these runs.                                                  *)
(***************************************************************************)
\* a callback of the script or a change made by the host page
Callback(type, target) == Event(type, target, "", FALSE, "")

\* the script has been evaluated and waitForD3 has run once
InitMount ==
  \E page \in ViewPages, d3 \in BOOLEAN, side \in BOOLEAN, main \in BOOLEAN :
    /\ searchData = <<>>
    /\ pathname = page
    /\ contentArea = main
    /\ clock = 1
    /\ recentStore = <<>>
    /\ loadState = "unstarted"
    /\ nodes = <<>>
    /\ links = manualLinks
    /\ miniView = NotDrawn
    /\ aug = NoSections
    /\ modalActive = FALSE
    /\ activeCategories = {"all", "notes", "work", "reading", "nav"}
    /\ searchValue = <<>>
    /\ searchQuery = <<>>
    /\ focusMode = FALSE
    /\ focusedNodeIndex = -1
    /\ keyboardFocusableNodes = <<>>
    /\ fullView = NotDrawn
    /\ miniClient = <<0, 0>>
    /\ fullClient = <<800, 600>>
    /\ tick = <<900, 70>>
    /\ fetched = <<>>
    /\ err = "none"
    /\ widget = "none"
    /\ graphs = 0
    /\ sections = <<>>
    /\ trail = NoTrail
    /\ event = Callback("script", "waitForD3")
    /\ sidebar = side
    /\ mainContent = main
    /\ d3Loaded = d3
    /\ domLoaded = FALSE
    /\ listening = d3
    /\ timers = {}
    /\ interval = FALSE

\* what no step of the mounting writes
mountFixed == <<searchData, pathname, clock, nodes, links, miniView, aug, viewVars,
                miniClient, fullClient, tick, err, sections, trail>>

\* the D3 library finishes loading
D3Loads ==
  /\ ~d3Loaded
  /\ d3Loaded' = TRUE
  /\ event' = Callback("load", "d3")
  /\ UNCHANGED <<mountFixed, contentArea, recentStore, loadState, fetched, widget, graphs, sidebar,
                 mainContent, domLoaded, listening, timers, interval>>

\* setTimeout(waitForD3, 100): initGraphScript() once d3.forceSimulation is defined
waitForD3 ==
  /\ ~listening
  /\ listening' = d3Loaded
  /\ event' = Callback("timeout", "waitForD3")
  /\ UNCHANGED <<mountFixed, contentArea, recentStore, loadState, fetched, widget, graphs, sidebar,
                 mainContent, d3Loaded, domLoaded, timers, interval>>

\* the document fires DOMContentLoaded; the listener runs when it is registered by then
DOMContentLoadedFires ==
  /\ ~domLoaded
  /\ domLoaded' = TRUE
  /\ event' = DOMContentLoaded
  /\ IF listening
       THEN /\ widget' = createSidebarGraph(widget, sidebar, mainContent)
            /\ graphs' = graphs + Created(widget)
            /\ timers' = RetryDelays \cup {StopDelay}
            /\ interval' = TRUE
            /\ recentStore' = addRecentPage(recentStore, pathname, clock)
            /\ fetched' = <<<<"/","s","e","a","r","c","h",".","j","s","o","n">>>>
            /\ loadState' = "primary"
       ELSE UNCHANGED <<widget, graphs, timers, interval, recentStore, fetched, loadState>>
  /\ UNCHANGED <<mountFixed, contentArea, sidebar, mainContent, d3Loaded, listening>>

\* what a change adds to a document that has a sidebar (side) and a main content
\* element (main) after it
Added(side, main) ==
  IF side # sidebar THEN "sidebar" ELSE IF main # mainContent THEN "main" ELSE "document"

\* the MutationObserver callback, once observer.observe has been called, on a document
\* that has a sidebar (side) and a main content element (main) after the change
ObserverCallback(side, main) ==
  IF loadState = "unstarted"
    THEN /\ event' = Callback("mutation", Added(side, main))
         /\ UNCHANGED <<widget, graphs>>
    ELSE /\ event' = Callback("observer", Added(side, main))
         /\ widget' = IF widget = "none" \/ (side /\ widget # "sidebar")
                         THEN createSidebarGraph(widget, side, main)
                         ELSE widget
         /\ graphs' = IF widget = "none" \/ (side /\ widget # "sidebar")
                         THEN graphs + Created(widget)
                         ELSE graphs

\* the host page inserts its sidebar
SidebarAppears ==
  /\ ~sidebar
  /\ sidebar' = TRUE
  /\ ObserverCallback(TRUE, mainContent)
  /\ UNCHANGED <<mountFixed, contentArea, recentStore, loadState, fetched, mainContent,
                 d3Loaded, domLoaded, listening, timers, interval>>

\* the host page inserts its main content element
MainContentAppears ==
  /\ ~mainContent
  /\ mainContent' = TRUE
  /\ contentArea' = TRUE
  /\ ObserverCallback(sidebar, TRUE)
  /\ UNCHANGED <<mountFixed, recentStore, loadState, fetched, sidebar,
                 d3Loaded, domLoaded, listening, timers, interval>>

\* the host page changes some other part of the document
OtherMutation ==
  /\ ObserverCallback(sidebar, mainContent)
  /\ UNCHANGED <<mountFixed, contentArea, recentStore, loadState, fetched, sidebar,
                 mainContent, d3Loaded, domLoaded, listening, timers, interval>>

\* the pending timeout with the shortest delay fires
Timeout(delay) ==
  /\ delay \in timers
  /\ \A d \in timers : delay <= d
  /\ timers' = timers \ {delay}
  /\ event' = Callback("timeout", IF delay = StopDelay THEN "clearInterval" ELSE "createSidebarGraph")
  /\ IF delay = StopDelay
       THEN interval' = FALSE /\ UNCHANGED <<widget, graphs>>
       ELSE /\ widget' = createSidebarGraph(widget, sidebar, mainContent)
            /\ graphs' = graphs + Created(widget)
            /\ UNCHANGED interval
  /\ UNCHANGED <<mountFixed, contentArea, recentStore, loadState, fetched, sidebar,
                 mainContent, d3Loaded, domLoaded, listening>>

\* setInterval(..., 100): checkMainContent
checkMainContent ==
  /\ interval
  /\ event' = Callback("interval", "checkMainContent")
  /\ IF mainContent
       THEN /\ widget' = IF widget = "none"
                            THEN createSidebarGraph(widget, sidebar, mainContent)
                            ELSE widget
            /\ graphs' = IF widget = "none" THEN graphs + Created(widget) ELSE graphs
            /\ interval' = FALSE
       ELSE UNCHANGED <<widget, graphs, interval>>
  /\ UNCHANGED <<mountFixed, contentArea, recentStore, loadState, fetched, sidebar,
                 mainContent, d3Loaded, domLoaded, listening, timers>>

NextMount ==
  \/ D3Loads
  \/ waitForD3
  \/ DOMContentLoadedFires
  \/ SidebarAppears
  \/ MainContentAppears
  \/ OtherMutation
  \/ \E delay \in RetryDelays \cup {StopDelay} : Timeout(delay)
  \/ checkMainContent

SpecMount == InitMount /\ [][NextMount]_vars

\* D3 finishes loading, the document fires DOMContentLoaded and every timer fires
FairMount ==
  /\ SpecMount
  /\ WF_vars(D3Loads)
  /\ WF_vars(waitForD3)
  /\ WF_vars(DOMContentLoadedFires)
  /\ WF_vars(\E delay \in RetryDelays \cup {StopDelay} : Timeout(delay))
  /\ WF_vars(checkMainContent)

\* mounting and the load chain together: every caller of createSidebarGraph
NextWidget == NextMount \/ NextLoad

SpecWidget == InitMount /\ [][NextWidget]_vars

(***************************************************************************)
(* The load chain on indexes whose pages share subdirectories               *)
(***************************************************************************)
SiblingIndexes ==
  { <<Item(<<"w","o","r","k","/","x","/","a",".","h","t","m","l">>, <<"A">>), Item(<<"w","o","r","k","/","x","/","b",".","h","t","m","l">>, <<"B">>)>>,
    <<Item(<<"r","e","a","d","i","n","g","/","y","/","a",".","h","t","m","l">>, <<"A">>), Item(<<"r","e","a","d","i","n","g","/","y","/","b",".","h","t","m","l">>, <<"B">>), Item(<<"r","e","a","d","i","n","g","/","r",".","h","t","m","l">>, <<"R">>)>>,
    <<Item(<<"n","o","t","e","s","/","a","/","b",".","h","t","m","l">>, <<"B">>), Item(<<"n","o","t","e","s","/","a","/","c",".","h","t","m","l">>, <<"C">>), Item(<<"n","o","t","e","s","/","n",".","h","t","m","l">>, <<"N">>),
      Item(<<"n","o","t","e","s","/","m",".","h","t","m","l">>, <<"M">>)>> }

InitSiblings ==
  \E items \in SiblingIndexes, page \in Pages, content \in BOOLEAN,
     mini \in MiniClientSizes, at \in SimPoints :
    Constructed(items, page, content, <<>>, 1, mini, <<800, 600>>, at, FALSE)

SpecSiblings == InitSiblings /\ [][NextLoad]_vars

(***************************************************************************)
(* Clicks and key presses that reach the document's listeners              *)
(***************************************************************************)
\* where an event can be aimed: an element of the mini widget, graphs, the floating button, the
\* overlay itself, its close button, an element of its panel, its search box, and an
\* input, a textarea and the body of the host page
Targets == {"widget", "mobileBtn", "backdrop", "closeBtn", "panel", "searchInput",
            "input", "textarea", "body"}

\* the targets inside the overlay, which take events only while it is shown
ModalTargets == {"backdrop", "closeBtn", "panel", "searchInput"}

Keys == {"g", "G", "Escape"}

tagName(target) ==
  CASE target \in {"searchInput", "input"} -> "INPUT"
    [] target = "textarea" -> "TEXTAREA"
    [] target \in {"mobileBtn", "closeBtn"} -> "BUTTON"
    [] target = "body" -> "BODY"
    [] OTHER -> "DIV"

\* faulty variant: the shortcut is taken wherever it is typed
Typing_Never(tag) == FALSE

\* e.target.tagName !== 'INPUT' && e.target.tagName !== 'TEXTAREA', negated
Typing(tag) == tag \in {"INPUT", "TEXTAREA"}

\* a click: the floating button's own listener, then the document's listener
Click(target) ==
  LET opens == target = "mobileBtn" \/ target = "widget"
      closes == target = "backdrop" \/ target = "closeBtn"
      opened == IF opens THEN TRUE ELSE modalActive
  IN  /\ target \in ModalTargets => modalActive
      /\ event' = Event("click", target, "", FALSE, tagName(target))
      /\ modalActive' = IF closes THEN FALSE ELSE opened
      /\ IF opens THEN initGraph(activeCategories, searchQuery, focusMode)
                  ELSE UNCHANGED <<keyboardFocusableNodes, fullView, nodes, links>>
      /\ UNCHANGED <<inputVars, hostVars, loadState, miniView, aug, fetched, err,
                     widget, graphs, sections, trail, activeCategories, searchValue, searchQuery,
                     focusMode, focusedNodeIndex>>

\* a key other than the arrows and Enter goes down: the search box's listener when it is
\* the target, then the document's listener (the keyboard navigation listener returns
\* without a change for these keys); modifier is e.ctrlKey || e.metaKey
KeyDown(key, modifier, target) ==
  LET cleared == target = "searchInput" /\ key = "Escape"
      q == IF cleared THEN <<>> ELSE searchQuery
      closed == IF key = "Escape" /\ modalActive THEN FALSE ELSE modalActive
      opens == key = "g" /\ ~modifier /\ ~Typing(tagName(target))
  IN  /\ target \in ModalTargets => modalActive
      /\ event' = Event("keydown", target, key, modifier, tagName(target))
      /\ searchValue' = IF cleared THEN <<>> ELSE searchValue
      /\ searchQuery' = q
      /\ focusedNodeIndex' = IF cleared THEN -1 ELSE focusedNodeIndex
      /\ modalActive' = IF opens THEN TRUE ELSE closed
      /\ IF cleared \/ opens THEN initGraph(activeCategories, q, focusMode)
                            ELSE UNCHANGED <<keyboardFocusableNodes, fullView, nodes, links>>
      /\ UNCHANGED <<inputVars, hostVars, loadState, miniView, aug, fetched, err,
                     widget, graphs, sections, trail, activeCategories, focusMode>>

NextModal ==
  \/ NextLoad
  \/ \E target \in Targets : Click(target)
  \/ \E key \in Keys, modifier \in BOOLEAN, target \in Targets : KeyDown(key, modifier, target)
  \/ SearchInput(<<"N","o","T","e">>)

SpecModal == InitView /\ [][NextModal]_vars

\* every fetch settles and the body of a response is read or found unreadable; nothing
\* obliges the reader to click or type
FairModal ==
  /\ SpecModal
  /\ WF_vars(PrimaryOk \/ PrimaryNotOk \/ PrimaryRejected)
  /\ WF_vars(FallbackOk \/ FallbackNotOk \/ FallbackRejected)
  /\ []<>(loadState # "json")

(***************************************************************************)
(* Injection run again on a loaded page, on content areas that come with   *)
(* sections of their own                                                   *)
(***************************************************************************)
\* at most this many further calls of injectBacklinksAndRelated
MaxRuns == 2

InjectIndexes == {PoolItems({1, 2, 4}, 1), PoolItems({2, 3, 4}, 1)}

\* the sections and footer a page is served with
PreSections ==
  { <<>>,
    <<Footer>>,
    <<Section("backlinks", FALSE, <<>>), Footer>>,
    <<Section("related", FALSE, <<>>), Section("backlinks", FALSE, <<>>)>>,
    <<Section("backlinks", TRUE, <<>>), Footer, Section("related", TRUE, <<>>)>> }

InitInject ==
  \E items \in InjectIndexes, page \in Pages, content \in BOOLEAN, pre \in PreSections :
    /\ sections = pre
    /\ searchData = items
    /\ pathname = page
    /\ contentArea = content
    /\ clock = 0
    /\ recentStore = addRecentPage(<<>>, page, 1)
    /\ loadState = "primary"
    /\ nodes = <<>>
    /\ links = manualLinks
    /\ miniView = NotDrawn
    /\ aug = NoSections
    /\ modalActive = FALSE
    /\ activeCategories = {"all", "notes", "work", "reading", "nav"}
    /\ searchValue = <<>>
    /\ searchQuery = <<>>
    /\ focusMode = FALSE
    /\ focusedNodeIndex = -1
    /\ keyboardFocusableNodes = <<>>
    /\ fullView = NotDrawn
    /\ miniClient = <<0, 0>>
    /\ fullClient = <<800, 600>>
    /\ tick = <<900, 70>>
    /\ fetched = <<<<"/","s","e","a","r","c","h",".","j","s","o","n">>>>
    /\ err = "none"
    /\ sidebar = TRUE
    /\ mainContent = content
    /\ widget = createSidebarGraph("none", TRUE, content)
    /\ graphs = Created("none")
    /\ trail = NoTrail
    /\ event = DOMContentLoaded
    /\ d3Loaded = TRUE
    /\ domLoaded = TRUE
    /\ listening = TRUE
    /\ timers = RetryDelays \cup {StopDelay}
    /\ interval = TRUE

\* injectBacklinksAndRelated() called again; clock counts the calls
injectBacklinksAndRelated ==
  /\ loadState = "loaded"
  /\ clock < MaxRuns
  /\ clock' = clock + 1
  /\ aug' = Inject(aug, nodes, links, pathname, contentArea)
  /\ sections' = InjectSections(sections, nodes, links, pathname, contentArea)
  /\ event' = Callback("call", "injectBacklinksAndRelated")
  /\ UNCHANGED <<searchData, pathname, contentArea, recentStore, miniClient, fullClient, tick,
                 hostVars, viewVars, loadState, nodes, links, miniView, fetched, err, widget, graphs,
                 trail>>

NextInject == NextLoad \/ injectBacklinksAndRelated

SpecInject == InitInject /\ [][NextInject]_vars

\* every fetch settles, and the body of a response is read or found unreadable (the
\* handler that follows runs: loadState does not stay "json")
FairInject ==
  /\ SpecInject
  /\ WF_vars(PrimaryOk \/ PrimaryNotOk \/ PrimaryRejected)
  /\ WF_vars(FallbackOk \/ FallbackNotOk \/ FallbackRejected)
  /\ []<>(loadState # "json")

(***************************************************************************)
(* Properties                                                              *)
(***************************************************************************)
LinkSet(ls) == {<<ls[i].source, ls[i].target>> : i \in 1..Len(ls)}

PathSet(ns) == {ns[i].path : i \in 1..Len(ns)}

Settled == loadState \in {"loaded", "failed"}

\* C1: once the index load has settled, by the success path or by the fallback path,
\* every edge of the manual edge list is in graphData.links.
C1_ManualLinksKept ==
  Settled => \A i \in 1..Len(manualLinks) :
               HasLink(links, manualLinks[i].source, manualLinks[i].target)

\* C1 happens: a load has succeeded and inferred edges were merged in
C1_Witness == loadState = "loaded" /\ Len(links) > Len(manualLinks)

\* C2: running the inference-and-merge step again on the merged edge list and the same
\* nodes gives a list with the same ordered pairs, none added, removed or duplicated.
C2_RebuildIdempotent ==
  loadState = "loaded" =>
    LET again == BuildLinks(nodes, links)
    IN  /\ LinkSet(again) = LinkSet(links)
        /\ Len(again) = Len(links)
        /\ Cardinality(LinkSet(links)) = Len(links)

\* C2 happens: the rules inferred the same pair more than once, and it was merged once
C2_Witness ==
  /\ loadState = "loaded"
  /\ Cardinality(LinkSet(AutoLinks(nodes))) < Len(AutoLinks(nodes))
  /\ LinkSet(AutoLinks(nodes)) \subseteq LinkSet(links)

\* C3 as stated: every node drawn in the full view has a category in activeCategories.
C3_RenderedCategoryActive ==
  fullView.drawn =>
    \A i \in 1..Len(fullView.nodes) : fullView.nodes[i].cat \in activeCategories

Views == {miniView, fullView}

\* C4: in every drawing of the mini view and of the full view, each drawn edge has its
\* source and its target among the nodes of the same drawing.
C4_NoDanglingEdge ==
  \A v \in Views :
    v.drawn => \A i \in 1..Len(v.links) :
                 IsNode(v.nodes, v.links[i].source) /\ IsNode(v.nodes, v.links[i].target)

\* C4 happens: the full view draws some edges and leaves out an edge of the graph that
\* has one end among the drawn nodes and the other end at a filtered-out node
C4_Witness ==
  /\ fullView.drawn
  /\ fullView.links # <<>>
  /\ \E i \in 1..Len(links) :
       /\ IsNode(nodes, links[i].source) /\ IsNode(nodes, links[i].target)
       /\ IsNode(fullView.nodes, links[i].source) # IsNode(fullView.nodes, links[i].target)

\* the drawn copy of the node that matches the URL is at the centre of the viewport
Centred(v) ==
  LET found == CurrentPageIndex(nodes, pathname)
  IN  \A i \in 1..Len(v.nodes) :
        (found # 0 /\ v.nodes[i].path = nodes[found].path) =>
          v.nodes[i].x = v.width \div 2 /\ v.nodes[i].y = v.height \div 2

\* C5 as stated: whenever the current-page node is among the nodes of a layout, it ends
\* at (width / 2, height / 2) of that view.
C5_CurrentNodeCentred == \A v \in Views : v.drawn => Centred(v)

\* a node passes the category filter of initGraph
PassesCategory(n) == "all" \in activeCategories \/ n.cat \in activeCategories

\* a node passes the focus filter of initGraph
PassesFocus(n) ==
  LET currentId == getCurrentPageId(nodes, pathname)
  IN  (focusMode /\ Truthy(currentId)) =>
        \E i \in 1..Len(links) :
          /\ links[i].source = currentId \/ links[i].target = currentId
          /\ n.id = links[i].source \/ n.id = links[i].target

\* the typed text, trimmed, is in no node's label, path or id, whatever the case
MatchesNothing ==
  LET query == toLowerCase(trim(searchValue))
  IN  \A i \in 1..Len(nodes) :
        /\ ~includes(toLowerCase(nodes[i].label), query)
        /\ ~includes(toLowerCase(nodes[i].path), query)
        /\ ~includes(toLowerCase(nodes[i].id), query)

\* C6 as stated: with an empty or whitespace-only query the drawn nodes are those that
\* pass the category filter; with a query that matches nothing, no node and no edge.
C6_SearchAsStated ==
  fullView.drawn =>
    /\ trim(searchValue) = <<>> =>
         PathSet(fullView.nodes) = {nodes[i].path : i \in {j \in 1..Len(nodes) : PassesCategory(nodes[j])}}
    /\ MatchesNothing => fullView.nodes = <<>> /\ fullView.links = <<>>

\* C6, amended: with an empty or whitespace-only query the drawn nodes are those that
\* pass the category filter and, with focus mode on and the current page resolved, the
\* focus filter; with a query that matches nothing, no node and no edge.
C6_SearchFilter ==
  fullView.drawn =>
    /\ trim(searchValue) = <<>> =>
         PathSet(fullView.nodes) =
           {nodes[i].path : i \in {j \in 1..Len(nodes) :
                                     PassesCategory(nodes[j]) /\ PassesFocus(nodes[j])}}
    /\ MatchesNothing => fullView.nodes = <<>> /\ fullView.links = <<>>

\* C6 happens: a whitespace-only text was typed with focus mode on and some, not all,
\* nodes are drawn
C6_Witness ==
  /\ fullView.drawn
  /\ searchValue # <<>>
  /\ trim(searchValue) = <<>>
  /\ focusMode
  /\ fullView.nodes # <<>>
  /\ Len(fullView.nodes) < Len(nodes)

\* C7 as stated: once a keyboard focus has been set, focusedNodeIndex is an index of
\* the visible node list.
C7_FocusIndexInRange ==
  focusedNodeIndex # -1 =>
    focusedNodeIndex >= 0 /\ focusedNodeIndex <= Len(keyboardFocusableNodes) - 1

\* by how much a step moves the focus index
Moved == IF focusedNodeIndex' >= focusedNodeIndex
           THEN focusedNodeIndex' - focusedNodeIndex
           ELSE focusedNodeIndex - focusedNodeIndex'

\* what C8 asks of one key press on a non-empty visible list
NoWrap(key) ==
  (ArrowKey(key) /\ keyboardFocusableNodes # <<>>) =>
    IF key \in {"ArrowUp", "ArrowLeft"} /\ focusedNodeIndex = 0
      THEN focusedNodeIndex' = 0
    ELSE IF /\ key \in {"ArrowDown", "ArrowRight"}
            /\ focusedNodeIndex = Len(keyboardFocusableNodes) - 1
      THEN focusedNodeIndex' = focusedNodeIndex
    ELSE Moved = 1

\* C8 as stated: up or left at index 0 stays at 0, down or right at the last index
\* stays there, and every other arrow press moves the index by exactly one.
C8_NoWrap == [][\A key \in ArrowKeys : NoWrap(key)]_vars

\* C9: the stored log has at most 10 entries, no path twice, and the page loaded last
\* as its first entry.
C9_RecentLog ==
  /\ Len(recentStore) <= 10
  /\ \A i, j \in 1..Len(recentStore) : recentStore[i].path = recentStore[j].path => i = j
  /\ recentStore # <<>>
  /\ recentStore[1].path = pathname

\* C9 happens: an eleventh page was loaded and the oldest entry fell off the log
C9_Witness ==
  /\ Len(recentStore) = 10
  /\ \E i \in 1..Len(RecentPool) :
       /\ ~Logged(recentStore, RecentPool[i])
       /\ \E j \in (i + 1)..Len(RecentPool) : Logged(recentStore, RecentPool[j])

\* C10 as stated: the injected backlinks are the nodes, other than the page itself, with
\* an edge to the current node, the injected related content the nodes with an edge from
\* it, each once.
C10_BacklinksExact ==
  aug.done =>
    LET n == nodes[CurrentPageIndex(nodes, pathname)]
    IN  /\ PathSet(aug.backlinks) =
             {nodes[i].path : i \in {j \in 1..Len(nodes) :
                /\ nodes[j].path # pathname
                /\ HasLink(links, nodes[j].id, n.id)}}
        /\ PathSet(aug.related) =
             {nodes[i].path : i \in {j \in 1..Len(nodes) : HasLink(links, n.id, nodes[j].id)}}
        /\ Cardinality(PathSet(aug.backlinks)) = Len(aug.backlinks)
        /\ Cardinality(PathSet(aug.related)) = Len(aug.related)

\* the ids of a node list, in order
Ids(ns) == [i \in 1..Len(ns) |-> ns[i].id]

CoreIds == <<<<"h","o","m","e">>, <<"a","b","o","u","t">>, <<"n","o","t","e","s">>, <<"w","o","r","k">>, <<"r","e","a","d","i","n","g">>, <<"c","o","n","t","a","c","t">>>>

\* C11: when a fetch of the index is rejected, graphData.nodes is the six core navigation
\* nodes, the widget is in the document and the mini view is drawn from those six nodes.
C11_RejectedGivesCore ==
  (loadState = "failed" /\ err = "rejected") =>
    /\ Ids(nodes) = CoreIds
    /\ \A i \in 1..Len(nodes) : nodes[i].cat = "nav"
    /\ widget # "none"
    /\ miniView.drawn
    /\ Ids(miniView.nodes) = CoreIds

\* C11 happens: the first fetch was rejected and the catch handler has drawn the mini view
C11_Witness ==
  /\ loadState = "failed"
  /\ err = "rejected"
  /\ Len(fetched) = 1
  /\ miniView.drawn

\* C12 as stated: at most one relative-path fallback is ever fetched, and the node list
\* degrades to the core nodes only after exactly one such fetch was attempted, also when
\* the first fetch was rejected or its body failed to parse.
C12_OneFallbackBeforeCore ==
  /\ Len(fetched) <= 2
  /\ loadState = "failed" =>
       /\ Len(fetched) = 2
       /\ fetched[2] \in {<<".","/","s","e","a","r","c","h",".","j","s","o","n">>, <<".",".","/","s","e","a","r","c","h",".","j","s","o","n">>}

\* C13 as stated: once the index has been loaded, no two nodes of graphData.nodes have
\* the same id and no two have the same path, core nodes included.
C13_UniqueIdsAndPaths ==
  Settled =>
    \A i, j \in 1..Len(nodes) :
      (nodes[i].id = nodes[j].id \/ nodes[i].path = nodes[j].path) => i = j

\* C14 as stated: in every execution in which D3 becomes available and the document
\* fires DOMContentLoaded, in whatever order, the mini widget is eventually in the
\* document.
C14_WidgetEventuallyPresent == <>(widget \in {"sidebar", "main", "fixed"})

\* the callbacks that try to mount the widget
MountCallbacks == {"timeout", "interval", "observer"}

\* C19 as stated: once the handler has found the widget container in the document, or
\* once every timeout of the handler has fired, no retry, interval or observer callback
\* runs any more.
C19_BoundedRetries ==
  [][(loadState # "unstarted" /\ (widget # "none" \/ timers = {}))
       => event'.type \notin MountCallbacks]_vars

\* C15: after one run of injectBacklinksAndRelated or more, the content area has at most
\* one backlinks section and at most one related-content section, and a further run
\* leaves the children of the content area as they are.
C15_InjectionIdempotent ==
  loadState = "loaded" =>
    /\ Cardinality({i \in 1..Len(sections) : sections[i].kind = "backlinks"}) <= 1
    /\ Cardinality({i \in 1..Len(sections) : sections[i].kind = "related"}) <= 1
    /\ InjectSections(sections, nodes, links, pathname, contentArea) = sections

\* C15 happens: the function has run again on a page that came with sections of its own
\* and the content area holds one section of each kind, injected by the script
C15_Witness ==
  /\ event = Callback("call", "injectBacklinksAndRelated")
  /\ clock = MaxRuns
  /\ \E i, j \in 1..Len(sections) :
       /\ sections[i].kind = "backlinks" /\ sections[i].auto /\ sections[i].entries # <<>>
       /\ sections[j].kind = "related" /\ sections[j].auto /\ sections[j].entries # <<>>
  /\ \E k \in 1..Len(sections) : sections[k].kind = "footer"

\* C16: the overlay opens only on a click in the mini widget or on the floating button or
\* on 'g' without Ctrl/Meta outside an INPUT or TEXTAREA; it closes only on a click on the
\* close control or the backdrop or on Escape; Escape while it is open always closes it.
C16_ModalTransitions ==
  [][/\ (~modalActive /\ modalActive') =>
          \/ event'.type = "click" /\ event'.target \in {"widget", "mobileBtn"}
          \/ /\ event'.type = "keydown" /\ event'.key = "g" /\ ~event'.modifier
             /\ event'.tagName \notin {"INPUT", "TEXTAREA"}
     /\ (modalActive /\ ~modalActive') =>
          \/ event'.type = "click" /\ event'.target \in {"closeBtn", "backdrop"}
          \/ event'.type = "keydown" /\ event'.key = "Escape"
     /\ (modalActive /\ event'.type = "keydown" /\ event'.key = "Escape") => ~modalActive'
    ]_vars

\* C16 happens: Escape typed in the search box of the open overlay has closed it
C16_Witness ==
  /\ ~modalActive
  /\ fullView # NotDrawn
  /\ event = Event("keydown", "searchInput", "Escape", TRUE, "INPUT")

\* C17: a click on the button of an individual category that is active takes 'all' out of
\* activeCategories, and a click that switches one on so that notes, work, reading and nav
\* are all active puts 'all' in.
C17_AllFollowsToggles ==
  [][\A cat \in FilterButtons \ {"all"} :
       FilterClick(cat) =>
         /\ cat \in activeCategories => "all" \notin activeCategories'
         /\ (cat \notin activeCategories
               /\ {"notes", "work", "reading", "nav"} \subseteq activeCategories')
              => "all" \in activeCategories'
    ]_vars

\* C17 happens: one category has been switched off in the open overlay and 'all' has gone
C17_Witness ==
  /\ modalActive
  /\ fullView # NotDrawn
  /\ activeCategories = {"work", "reading", "nav"}

\* C18 as stated: on a page other than the homepage that has a content area, the
\* breadcrumb trail built from the path is in the content area sooner or later.
C18_TrailEventuallyInjected ==
  (pathname \notin {<<"/">>, <<"/","i","n","d","e","x",".","h","t","m","l">>} /\ contentArea)
    ~> (trail # NoTrail /\ trail = injectReadingTrail(NoTrail, pathname, contentArea))

\* C20 as stated: a click on the All button while 'all' is not in activeCategories leaves
\* 'all' and each of notes, work, reading and nav in the set.
C20_AllRestoresEvery ==
  [][("all" \notin activeCategories /\ FilterClick("all")) =>
       {"all", "notes", "work", "reading", "nav"} \subseteq activeCategories'
    ]_vars

\* C21 as stated: when the overlay is opened, the category set, the query, focus mode and
\* the keyboard focus index have their initial values.
C21_SessionScopedViewState ==
  [][(~modalActive /\ modalActive') =>
       /\ activeCategories' = {"all", "notes", "work", "reading", "nav"}
       /\ searchQuery' = <<>>
       /\ ~focusMode'
       /\ focusedNodeIndex' = -1
    ]_vars

\* a node passes the search filter of initGraph
PassesSearch(n) == searchQuery = <<>> \/ SearchMatch(n, toLowerCase(searchQuery))

\* a node is at the other end of an edge from or to the current page's node
Neighbour(n) ==
  LET currentId == getCurrentPageId(nodes, pathname)
  IN  /\ n.id # currentId
      /\ \E i \in 1..Len(links) :
           \/ links[i].source = currentId /\ links[i].target = n.id
           \/ links[i].target = currentId /\ links[i].source = n.id

\* C23 as stated: with focus mode on and the current page resolved, the nodes drawn in
\* the full view are the neighbours of the current page's node that pass the category
\* and search filters.
C23_FocusShowsNeighbours ==
  (fullView.drawn /\ focusMode /\ Truthy(getCurrentPageId(nodes, pathname))) =>
    PathSet(fullView.nodes) =
      {nodes[i].path : i \in {j \in 1..Len(nodes) :
          Neighbour(nodes[j]) /\ PassesCategory(nodes[j]) /\ PassesSearch(nodes[j])}}

\* C23, amended: with focus mode on and the current page resolved, the nodes drawn in
\* the full view are the nodes whose id is an end of an edge that touches the current
\* page's id (its neighbours and, when it has an edge, the current node itself) and that
\* pass the category and search filters.
C23_FocusShowsConnected ==
  (fullView.drawn /\ focusMode /\ Truthy(getCurrentPageId(nodes, pathname))) =>
    PathSet(fullView.nodes) =
      {nodes[i].path : i \in {j \in 1..Len(nodes) :
          PassesFocus(nodes[j]) /\ PassesCategory(nodes[j]) /\ PassesSearch(nodes[j])}}

\* C23 happens: focus mode is on, the current page is resolved and the full view shows
\* its node with some, not all, of the others
C23_Witness ==
  /\ fullView.drawn
  /\ focusMode
  /\ loadState = "loaded"
  /\ fullView.currentId = getCurrentPageId(nodes, pathname)
  /\ \E i \in 1..Len(fullView.nodes) : fullView.nodes[i].id = fullView.currentId
  /\ \E i \in 1..Len(fullView.nodes) : fullView.nodes[i].id # fullView.currentId
  /\ Len(fullView.nodes) < Len(nodes)

\* C27 as stated: the current page resolves to a node whose path is the URL path (or the
\* URL path without a trailing 'index.html') when there is one; without such a node a
\* path that is not a root path resolves to no node.
C27_ExactElseNull ==
  LET exact == {i \in 1..Len(nodes) : ExactMatch(nodes[i], pathname)}
      currentId == getCurrentPageId(nodes, pathname)
  IN  nodes # <<>> =>
        /\ exact # {} => \E i \in exact : currentId = nodes[i].id
        /\ (exact = {} /\ ~IsRootPath(pathname)) => currentId = Null

\* two nodes of one of the categories notes, work and reading lie in the same directory
\* below the category's root
Siblings(n1, n2) ==
  /\ n1.path # n2.path
  /\ n1.cat = n2.cat
  /\ n1.cat \in {"notes", "work", "reading"}
  /\ DirName(n1.path) = DirName(n2.path)
  /\ \E root \in {<<"/","n","o","t","e","s">>, <<"/","w","o","r","k">>, <<"/","r","e","a","d","i","n","g">>} :
       startsWith(DirName(n1.path), root \o <<"/">>)

\* C25 as stated: after a successful load, two nodes of the same category in the same
\* directory below the category's root are linked in both directions.
C25_SiblingsLinked ==
  loadState = "loaded" =>
    \A i, j \in 1..Len(nodes) :
      Siblings(nodes[i], nodes[j]) =>
        HasLink(links, nodes[i].id, nodes[j].id) /\ HasLink(links, nodes[j].id, nodes[i].id)

\* C26 as stated: once there are nodes, the backlinks and related-content sections of the
\* current page are put into the content area sooner or later: the content area comes to
\* hold what injectBacklinksAndRelated leaves there.
C26_InjectionFollowsNodes ==
  (nodes # <<>>)
    ~> (sections = InjectSections(sections, nodes, links, pathname, contentArea))

\* C29 as stated: an overlay opened while there are no nodes yet shows the graph sooner
\* or later (unless it is closed first).
C29_OpenModalRendersAfterLoad ==
  (modalActive /\ nodes = <<>>) ~> (fullView.drawn \/ ~modalActive)

\* C28: a click on the reset control leaves the transform the last render fitted
\* the drawing with, whatever zooming or panning came before
C28_ResetRestoresFit ==
  [][ResetZoomClick =>
       (fullView'.drawn =>
          fullView'.transform =
            FitTransform(fullView.nodes, fullView.currentId, fullView.width, fullView.height))]_vars

\* C22: once no preview fetch of the render is in flight, a tooltip that has been
\* written shows the node the pointer entered last
C22_LastEnterWins ==
  (/\ fullView.drawn
   /\ event.type \in {"mouseenter", "mouseleave"}
   /\ fullView.preview.pending = {}
   /\ fullView.preview.html.node # 0)
    => fullView.preview.html.node = event.target

C24_CanonicalUntouched ==
  /\ \A i \in 1..Len(nodes) : DOMAIN nodes[i] = {"id", "label", "path", "cat"}
  /\ \A i \in 1..Len(links) : DOMAIN links[i] = {"source", "target"}
  /\ {miniView.nodes[k].obj : k \in 1..Len(miniView.nodes)}
       \cap {fullView.nodes[k].obj : k \in 1..Len(fullView.nodes)} = {}

C24_Witness ==
  /\ miniView.drawn
  /\ miniView.links # <<>>
  /\ fullView.drawn
  /\ fullView.links # <<>>
  /\ \E k \in 1..Len(fullView.nodes) : fullView.nodes[k].pinned
  /\ \E k \in 1..Len(fullView.nodes) : ~fullView.nodes[k].pinned
  /\ \E k \in 1..Len(miniView.nodes) : miniView.nodes[k].pinned
  /\ focusedNodeIndex >= 0

====
